---------------------------- MODULE Spec2Model ----------------------------
(***************************************************************************)
(* Model of foundry/merge_deployments.py: the script lists the directory   *)
(* broadcast/uniswapContracts, skips the entry "31337", json.load()s       *)
(* <entry>/deployedCrossLiquid.json of every other entry into the dict     *)
(* `deployments`, then opens ../agent/src/contracts/deployed.ts for        *)
(* writing and writes a header, one line-group per dict item and a footer. *)
(*                                                                         *)
(* Text (file contents, chain ids) is a sequence of one-character strings, *)
(* so that json.load, json.dumps and the f-string are computed character   *)
(* by character.  A JSON value is a record [t, v]:                         *)
(*   null  [t |-> "null", v |-> <<>>]     bool  [t |-> "bool", v |-> b]    *)
(*   int   [t |-> "num",  v |-> n]        str   [t |-> "str",  v |-> chars]*)
(*   list  [t |-> "arr",  v |-> <<values>>]                                *)
(*   dict  [t |-> "obj",  v |-> << <<key chars, value>>, ... >>]           *)
(* (a Python dict keeps insertion order, so it is a sequence of items with *)
(* distinct keys).  Numbers are integers: the input texts drawn below hold *)
(* no fraction, exponent, NaN or Infinity.                                 *)
(***************************************************************************)
EXTENDS Integers, Sequences, FiniteSets, TLC

(***************************************************************************)
(* Characters                                                              *)
(***************************************************************************)
Digits == <<"0", "1", "2", "3", "4", "5", "6", "7", "8", "9">>

IsDigit(c) == \E d \in 1..10 : Digits[d] = c

DigitVal(c) == (CHOOSE d \in 1..10 : Digits[d] = c) - 1

\* json.decoder.WHITESPACE: [ \t\n\r]*
IsWs(c) == c \in {" ", "\t", "\n", "\r"}

\* Characters below 0x20, which a strict JSON string may not hold unescaped.
IsControl(c) == c \in {"\t", "\n", "\r"}

\* json.decoder.BACKSLASH: the character an escape letter stands for.
IsEscapeLetter(c) == c \in {"\"", "\\", "/", "n", "t", "r"}

Unescape(c) ==
    CASE c = "n" -> "\n"
      [] c = "t" -> "\t"
      [] c = "r" -> "\r"
      [] OTHER   -> c

\* Mutant of EscapeChar: only the quote is escaped.
EscapeChar_QuoteOnly(c) == IF c = "\"" THEN <<"\\", "\"">> ELSE <<c>>

\* json.encoder.ESCAPE_DCT: what encode_basestring_ascii writes for c.
EscapeChar(c) ==
    CASE c = "\"" -> <<"\\", "\"">>
      [] c = "\\" -> <<"\\", "\\">>
      [] c = "\n" -> <<"\\", "n">>
      [] c = "\t" -> <<"\\", "t">>
      [] c = "\r" -> <<"\\", "r">>
      [] OTHER    -> <<c>>

(***************************************************************************)
(* JSON values and the ordered dict                                        *)
(***************************************************************************)
JNull == [t |-> "null", v |-> <<>>]
JBool(b) == [t |-> "bool", v |-> b]
JNum(n) == [t |-> "num", v |-> n]
JStr(cs) == [t |-> "str", v |-> cs]
JArr(vs) == [t |-> "arr", v |-> vs]
JObj(items) == [t |-> "obj", v |-> items]

\* The keys of a dict, in iteration order.
DictKeys(d) == [k \in 1..Len(d) |-> d[k][1]]

HasKey(d, key) == \E k \in 1..Len(d) : d[k][1] = key

\* Mutant of DictSet: the dict is replaced by the one new item.
DictSet_Replace(d, key, val) == << <<key, val>> >>

\* Mutant of DictSet: a new key goes first.
DictSet_Prepend(d, key, val) ==
    IF HasKey(d, key)
    THEN [k \in 1..Len(d) |-> IF d[k][1] = key THEN <<key, val>> ELSE d[k]]
    ELSE << <<key, val>> >> \o d

\* d[key] = val: a new key goes last, a known key keeps its place.
DictSet(d, key, val) ==
    IF HasKey(d, key)
    THEN [k \in 1..Len(d) |-> IF d[k][1] = key THEN <<key, val>> ELSE d[k]]
    ELSE Append(d, <<key, val>>)

(***************************************************************************)
(* json.load                                                               *)
(***************************************************************************)
ScanFail == [ok |-> FALSE, val |-> JNull, end |-> 0]

ScanOk(val, end) == [ok |-> TRUE, val |-> val, end |-> end]

\* s[i .. i+Len(word)-1] = word
HasWord(s, i, word) ==
    /\ i + Len(word) - 1 <= Len(s)
    /\ \A k \in 1..Len(word) : s[i + k - 1] = word[k]

RECURSIVE SkipWs(_, _)
\* WHITESPACE.match(s, i).end(): the first index at or after i that holds no
\* whitespace (Len(s) + 1 at the end of the text).
SkipWs(s, i) ==
    IF i <= Len(s) /\ IsWs(s[i]) THEN SkipWs(s, i + 1) ELSE i

RECURSIVE ScanString(_, _, _)
\* py_scanstring, strict: i is the index after the opening quote, acc the
\* characters read so far; end is the index after the closing quote.
ScanString(s, i, acc) ==
    IF i > Len(s) THEN ScanFail
    ELSE IF s[i] = "\"" THEN ScanOk(acc, i + 1)
    ELSE IF s[i] = "\\"
         THEN IF i + 1 <= Len(s) /\ IsEscapeLetter(s[i + 1])
              THEN ScanString(s, i + 2, Append(acc, Unescape(s[i + 1])))
              ELSE ScanFail
    ELSE IF IsControl(s[i]) THEN ScanFail
    ELSE ScanString(s, i + 1, Append(acc, s[i]))

RECURSIVE ScanDigits(_, _, _)
\* The digits [0-9]* from index i on, acc the value read so far.
ScanDigits(s, i, acc) ==
    IF i <= Len(s) /\ IsDigit(s[i])
    THEN ScanDigits(s, i + 1, 10 * acc + DigitVal(s[i]))
    ELSE ScanOk(acc, i)

\* NUMBER_RE, integer part: -?(0|[1-9][0-9]*)
ScanNumber(s, i) ==
    LET neg == i <= Len(s) /\ s[i] = "-"
        j == IF neg THEN i + 1 ELSE i
    IN  IF j > Len(s) \/ ~IsDigit(s[j]) THEN ScanFail
        ELSE LET r == IF s[j] = "0" THEN ScanOk(0, j + 1) ELSE ScanDigits(s, j, 0)
             IN  ScanOk(JNum(IF neg THEN 0 - r.val ELSE r.val), r.end)

RECURSIVE ScanOnce(_, _), ArrayLoop(_, _, _), ObjectLoop(_, _, _)
\* JSONArray after the first value position i: value, then "]" or "," value ...
ArrayLoop(s, i, acc) ==
    LET r == ScanOnce(s, i)
    IN  IF ~r.ok THEN ScanFail
        ELSE LET j == SkipWs(s, r.end)
                 vals == Append(acc, r.val)
             IN  IF j > Len(s) THEN ScanFail
                 ELSE IF s[j] = "]" THEN ScanOk(JArr(vals), j + 1)
                 ELSE IF s[j] # "," THEN ScanFail
                 ELSE ArrayLoop(s, SkipWs(s, j + 1), vals)

\* JSONObject: i is the index after the opening quote of a key.
ObjectLoop(s, i, acc) ==
    LET k == ScanString(s, i, <<>>)
    IN  IF ~k.ok THEN ScanFail
        ELSE LET c == SkipWs(s, k.end)
             IN  IF c > Len(s) \/ s[c] # ":" THEN ScanFail
                 ELSE LET r == ScanOnce(s, SkipWs(s, c + 1))
                      IN  IF ~r.ok THEN ScanFail
                          ELSE LET j == SkipWs(s, r.end)
                                   items == DictSet(acc, k.val, r.val)
                               IN  IF j > Len(s) THEN ScanFail
                                   ELSE IF s[j] = "}" THEN ScanOk(JObj(items), j + 1)
                                   ELSE IF s[j] # "," THEN ScanFail
                                   ELSE LET q == SkipWs(s, j + 1)
                                        IN  IF q > Len(s) \/ s[q] # "\"" THEN ScanFail
                                            ELSE ObjectLoop(s, q + 1, items)

\* json.scanner.py_make_scanner._scan_once: the value that starts at index i.
ScanOnce(s, i) ==
    IF i > Len(s) THEN ScanFail
    ELSE IF s[i] = "\""
         THEN LET r == ScanString(s, i + 1, <<>>)
              IN  IF r.ok THEN ScanOk(JStr(r.val), r.end) ELSE ScanFail
    ELSE IF s[i] = "{"
         THEN LET j == SkipWs(s, i + 1)
              IN  IF j > Len(s) THEN ScanFail
                  ELSE IF s[j] = "}" THEN ScanOk(JObj(<<>>), j + 1)
                  ELSE IF s[j] # "\"" THEN ScanFail
                  ELSE ObjectLoop(s, j + 1, <<>>)
    ELSE IF s[i] = "["
         THEN LET j == SkipWs(s, i + 1)
              IN  IF j <= Len(s) /\ s[j] = "]" THEN ScanOk(JArr(<<>>), j + 1)
                  ELSE ArrayLoop(s, j, <<>>)
    ELSE IF HasWord(s, i, <<"n", "u", "l", "l">>) THEN ScanOk(JNull, i + 4)
    ELSE IF HasWord(s, i, <<"t", "r", "u", "e">>) THEN ScanOk(JBool(TRUE), i + 4)
    ELSE IF HasWord(s, i, <<"f", "a", "l", "s", "e">>) THEN ScanOk(JBool(FALSE), i + 5)
    ELSE ScanNumber(s, i)

\* json.load(f) = JSONDecoder.decode(f.read()): leading whitespace, one value,
\* trailing whitespace, and nothing else ("Extra data" otherwise).
JsonLoad(s) ==
    LET r == ScanOnce(s, SkipWs(s, 1))
    IN  IF r.ok /\ SkipWs(s, r.end) = Len(s) + 1 THEN r ELSE ScanFail

(***************************************************************************)
(* json.dumps(value, indent=2)                                             *)
(***************************************************************************)
RECURSIVE Concat(_)
\* "".join(parts)
Concat(parts) ==
    IF parts = <<>> THEN <<>> ELSE Head(parts) \o Concat(Tail(parts))

RECURSIVE NatToChars(_)
NatToChars(n) ==
    IF n < 10 THEN <<Digits[n + 1]>>
    ELSE NatToChars(n \div 10) \o <<Digits[(n % 10) + 1]>>

\* int.__repr__
IntToChars(n) == IF n < 0 THEN <<"-">> \o NatToChars(0 - n) ELSE NatToChars(n)

\* encode_basestring_ascii
EncodeString(cs) == <<"\"">> \o Concat([k \in 1..Len(cs) |-> EscapeChar(cs[k])]) \o <<"\"">>

\* "\n" + " " * (2 * level)
NewlineIndent(level) == <<"\n">> \o [k \in 1..(2 * level) |-> " "]

RECURSIVE Join(_, _)
\* sep.join(parts)
Join(parts, sep) ==
    IF parts = <<>> THEN <<>>
    ELSE IF Len(parts) = 1 THEN parts[1]
    ELSE parts[1] \o sep \o Join(Tail(parts), sep)

RECURSIVE Encode(_, _)
\* _make_iterencode._iterencode at nesting depth level, item separator ","
\* and key separator ": " (the defaults once indent is given).
Encode(val, level) ==
    CASE val.t = "null" -> <<"n", "u", "l", "l">>
      [] val.t = "bool" -> IF val.v THEN <<"t", "r", "u", "e">>
                           ELSE <<"f", "a", "l", "s", "e">>
      [] val.t = "num"  -> IntToChars(val.v)
      [] val.t = "str"  -> EncodeString(val.v)
      [] val.t = "arr"  ->
            IF val.v = <<>> THEN <<"[", "]">>
            ELSE <<"[">> \o NewlineIndent(level + 1)
                 \o Join([k \in 1..Len(val.v) |-> Encode(val.v[k], level + 1)],
                         <<",">> \o NewlineIndent(level + 1))
                 \o NewlineIndent(level) \o <<"]">>
      [] val.t = "obj"  ->
            IF val.v = <<>> THEN <<"{", "}">>
            ELSE <<"{">> \o NewlineIndent(level + 1)
                 \o Join([k \in 1..Len(val.v) |->
                             EncodeString(val.v[k][1]) \o <<":", " ">>
                             \o Encode(val.v[k][2], level + 1)],
                         <<",">> \o NewlineIndent(level + 1))
                 \o NewlineIndent(level) \o <<"}">>

JsonDumps(val) == Encode(val, 0)


(***************************************************************************)
(* The input tree and the output path                                      *)
(***************************************************************************)
\* The `if chainId == "31337"` literal.
Excluded == <<"3", "1", "3", "3", "7">>

\* Entry names a listing may hold: the first NameCount of these.
AllNames == << <<"1">>, Excluded, <<"1", "3", "7">>, <<"1", "0">>, <<"3", "1", "3", "3">> >>

NameCount == 3

Names == {AllNames[k] : k \in 1..NameCount}

\* Contents a deployedCrossLiquid.json may have.
\*   {"Router":"0xAA"}
TextRouter == <<"{", "\"", "R", "o", "u", "t", "e", "r", "\"", ":", "\"", "0", "x", "A", "A", "\"", "}">>
\*   [-12, true, false, [], {}]
TextList == <<"[", "-", "1", "2", ",", " ", "t", "r", "u", "e", ",", " ", "f", "a", "l", "s", "e", ",", " ", "[", "]", ",", " ", "{", "}", "]">>
\*   {"Router":          (cut short: not valid JSON)
TextCut == <<"{", "\"", "R", "o", "u", "t", "e", "r", "\"", ":">>
\*   {"a": [1, {"b": null}], "c": "x\"y"}
TextNested == <<"{", "\"", "a", "\"", ":", " ", "[", "1", ",", " ", "{", "\"", "b", "\"", ":", " ", "n", "u", "l", "l", "}", "]", ",", " ", "\"", "c", "\"", ":", " ", "\"", "x", "\\", "\"", "y", "\"", "}">>
\*   {"a":1,"a":2}
TextDupKey == <<"{", "\"", "a", "\"", ":", "1", ",", "\"", "a", "\"", ":", "2", "}">>
\*   [1,]                (not valid JSON)
TextTrailingComma == <<"[", "1", ",", "]">>
\*   ' "0\n" \n'         (a string with an escape, whitespace around it)
TextPadded == <<" ", "\"", "0", "\\", "n", "\"", " ", "\n">>
\*   {"k":"\\","l":[[0]]}
TextBackslash == <<"{", "\"", "k", "\"", ":", "\"", "\\", "\\", "\"", ",", "\"", "l", "\"", ":", "[", "[", "0", "]", "]", "}">>

InputTexts == {TextRouter, TextList, TextCut}

RichTexts == {TextRouter, TextList, TextCut, TextNested, TextDupKey,
              TextTrailingComma, TextPadded, TextBackslash, <<"7">>, <<>>}

\* What the root directory holds under one name.
NotDir == [isDir |-> FALSE, hasFile |-> FALSE, text |-> <<>>]
DirNoFile == [isDir |-> TRUE, hasFile |-> FALSE, text |-> <<>>]
DirWith(text) == [isDir |-> TRUE, hasFile |-> TRUE, text |-> text]

EntryStates(texts) == {NotDir, DirNoFile} \cup {DirWith(t) : t \in texts}

Range(s) == {s[k] : k \in 1..Len(s)}

\* The entry names of RoundTripSpec.
RoundTripNames == {AllNames[1], AllNames[2], AllNames[3]}

\* What os.listdir may return: the names of the root's entries, each once, in
\* any order.
Listings ==
    {s \in UNION {[1..n -> Names] : n \in 0..NameCount} :
        \A a, b \in 1..Len(s) : a # b => s[a] # s[b]}

\* The previous content of deployed.ts, when there is one.
OldContent == <<"o", "l", "d">>

NoFile == [exists |-> FALSE, content |-> <<>>]

NoError == [kind |-> "none", where |-> "none", entry |-> <<>>]

VARIABLES
    rootExists,     \* broadcast/uniswapContracts is a directory
    listing,        \* its entries, in the order os.listdir returns them
    tree,           \* name -> what is under that name
    loaded,         \* file content -> what json.load returns for it (JsonLoad
                    \* of the content, set once: parsing is a function of it)
    outDirExists,   \* ../agent/src/contracts is a directory
    outFile,        \* ../agent/src/contracts/deployed.ts
    pc,             \* where the script is
    i,              \* the for loop's position in the listing
    deployments,    \* the dict
    j,              \* the emit loop's position in deployments.items()
    error,          \* the uncaught exception, once raised
    visits,         \* position -> how often the loop body ran for it, this run
    outFile0,       \* deployed.ts as it was when this run started
    prevEmitted     \* the run before this one ended with the file written

fsVars == <<rootExists, listing, tree, loaded, outDirExists>>
vars == <<rootExists, listing, tree, loaded, outDirExists, outFile, pc, i, deployments,
          j, error, visits, outFile0, prevEmitted>>

InitWith(texts, lists) ==
    /\ rootExists \in BOOLEAN
    /\ listing \in IF rootExists THEN lists ELSE {<<>>}
    /\ tree \in [Range(listing) -> EntryStates(texts)]
    /\ loaded = [text \in texts \cup {<<>>} |-> JsonLoad(text)]
    /\ outDirExists \in BOOLEAN
    /\ outFile \in IF outDirExists
                   THEN {NoFile, [exists |-> TRUE, content |-> OldContent]}
                   ELSE {NoFile}
    /\ pc = "start"
    /\ i = 0
    /\ deployments = <<>>
    /\ j = 0
    /\ error = NoError
    /\ visits = [k \in 1..Len(listing) |-> 0]
    /\ outFile0 = outFile
    /\ prevEmitted = FALSE

Init == InitWith(InputTexts, Listings)

(***************************************************************************)
(* The script                                                              *)
(***************************************************************************)
\* line 15: open(f"broadcast/uniswapContracts/{chainId}/deployedCrossLiquid.json", "r")
OpenRead(chainId) ==
    IF ~tree[chainId].isDir
    THEN [ok |-> FALSE, kind |-> "NotADirectoryError", text |-> <<>>]
    ELSE IF ~tree[chainId].hasFile
    THEN [ok |-> FALSE, kind |-> "FileNotFoundError", text |-> <<>>]
    ELSE [ok |-> TRUE, kind |-> "none", text |-> tree[chainId].text]

\* Mutant of IsExcluded: nothing is excluded.
IsExcluded_Never(chainId) == FALSE

\* Mutant of IsExcluded: the file is opened before the id is compared.
IsExcluded_AfterOpen(chainId) == OpenRead(chainId).ok /\ chainId = Excluded

\* line 13: if chainId == "31337"
IsExcluded(chainId) == chainId = Excluded

\* lines 15-16 succeed for chainId: the file opens and its text parses.
Loadable(chainId) == OpenRead(chainId).ok /\ loaded[OpenRead(chainId).text].ok

\* The exception lines 15-16 raise for chainId, when they do.
LoadError(chainId) ==
    IF ~OpenRead(chainId).ok THEN OpenRead(chainId).kind ELSE "JSONDecodeError"

Abort(kind, where, entry) ==
    /\ pc' = "aborted"
    /\ error' = [kind |-> kind, where |-> where, entry |-> entry]

\* Mutant of ListDir: the output is opened before the inputs are collected.
ListDir_OpensOutputFirst ==
    /\ pc = "start"
    /\ IF rootExists
       THEN /\ pc' = "collecting"
            /\ i' = 1
            /\ error' = error
            /\ outFile' = IF outDirExists THEN [exists |-> TRUE, content |-> <<>>]
                          ELSE outFile
       ELSE /\ Abort("FileNotFoundError", "listdir", <<>>)
            /\ i' = i
            /\ outFile' = outFile
    /\ UNCHANGED <<fsVars, deployments, j, visits, outFile0, prevEmitted>>

\* line 12: os.listdir("broadcast/uniswapContracts")
ListDir ==
    /\ pc = "start"
    /\ IF rootExists
       THEN /\ pc' = "collecting"
            /\ i' = 1
            /\ error' = error
       ELSE /\ Abort("FileNotFoundError", "listdir", <<>>)
            /\ i' = i
    /\ UNCHANGED <<fsVars, outFile, deployments, j, visits, outFile0, prevEmitted>>

\* lines 13-14: the excluded id is skipped.
SkipExcluded ==
    /\ pc = "collecting"
    /\ i <= Len(listing)
    /\ IsExcluded(listing[i])
    /\ i' = i + 1
    /\ visits' = [visits EXCEPT ![i] = @ + 1]
    /\ UNCHANGED <<fsVars, outFile, pc, deployments, j, error, outFile0, prevEmitted>>

\* Mutant of LoadEntry: the path is built from the first entry's name.
LoadEntry_FirstFile ==
    /\ pc = "collecting"
    /\ i <= Len(listing)
    /\ ~IsExcluded(listing[i])
    /\ Loadable(listing[i])
    /\ deployments' = DictSet(deployments, listing[i],
                              loaded[tree[listing[1]].text].val)
    /\ i' = i + 1
    /\ visits' = [visits EXCEPT ![i] = @ + 1]
    /\ UNCHANGED <<fsVars, outFile, pc, j, error, outFile0, prevEmitted>>

\* lines 15-16: deployments[chainId] = json.load(f)
LoadEntry ==
    /\ pc = "collecting"
    /\ i <= Len(listing)
    /\ ~IsExcluded(listing[i])
    /\ Loadable(listing[i])
    /\ deployments' = DictSet(deployments, listing[i],
                              loaded[OpenRead(listing[i]).text].val)
    /\ i' = i + 1
    /\ visits' = [visits EXCEPT ![i] = @ + 1]
    /\ UNCHANGED <<fsVars, outFile, pc, j, error, outFile0, prevEmitted>>

\* Mutant of LoadFail: the exception is caught and the entry skipped.
LoadFail_SkipAndContinue ==
    /\ pc = "collecting"
    /\ i <= Len(listing)
    /\ ~IsExcluded(listing[i])
    /\ ~Loadable(listing[i])
    /\ i' = i + 1
    /\ visits' = [visits EXCEPT ![i] = @ + 1]
    /\ UNCHANGED <<fsVars, outFile, pc, deployments, j, error, outFile0, prevEmitted>>

\* Mutant of LoadFail: a failed entry is tried a second time before the
\* exception is let through.
LoadFail_RetryOnce ==
    /\ pc = "collecting"
    /\ i <= Len(listing)
    /\ ~IsExcluded(listing[i])
    /\ ~Loadable(listing[i])
    /\ IF visits[i] = 0
       THEN UNCHANGED <<pc, error>>
       ELSE Abort(LoadError(listing[i]), "input", listing[i])
    /\ visits' = [visits EXCEPT ![i] = @ + 1]
    /\ UNCHANGED <<fsVars, outFile, i, deployments, j, outFile0, prevEmitted>>

\* lines 15-16 raise: nothing catches it.
LoadFail ==
    /\ pc = "collecting"
    /\ i <= Len(listing)
    /\ ~IsExcluded(listing[i])
    /\ ~Loadable(listing[i])
    /\ Abort(LoadError(listing[i]), "input", listing[i])
    /\ visits' = [visits EXCEPT ![i] = @ + 1]
    /\ UNCHANGED <<fsVars, outFile, i, deployments, j, outFile0, prevEmitted>>

\* Mutant of OpenWrite: the parent directory is made first (os.makedirs with
\* exist_ok=True).
OpenWrite_Makedirs ==
    /\ pc = "collecting"
    /\ i > Len(listing)
    /\ outDirExists' = TRUE
    /\ outFile' = [exists |-> TRUE, content |-> <<>>]
    /\ pc' = "header"
    /\ UNCHANGED <<rootExists, listing, tree, loaded, i, deployments, j, error,
                   visits, outFile0, prevEmitted>>

\* line 18: open("../agent/src/contracts/deployed.ts", "w") creates or truncates
\* the file; it creates no directory.
OpenWrite ==
    /\ pc = "collecting"
    /\ i > Len(listing)
    /\ IF outDirExists
       THEN /\ outFile' = [exists |-> TRUE, content |-> <<>>]
            /\ pc' = "header"
            /\ error' = error
       ELSE /\ Abort("FileNotFoundError", "output", <<>>)
            /\ outFile' = outFile
    /\ UNCHANGED <<fsVars, i, deployments, j, visits, outFile0, prevEmitted>>

Header == <<"e", "x", "p", "o", "r", "t", " ", "c", "o", "n", "s", "t", " ", "d", "e", "p", "l", "o", "y", "e", "d", "C", "o", "n", "t", "r", "a", "c", "t", "s", " ", "=", " ", "{", "\n">>

\* line 21: f"  {chainId}: {json.dumps(deployment, indent=2)},\n"
ItemText(chainId, deployment) ==
    <<" ", " ">> \o chainId \o <<":", " ">> \o JsonDumps(deployment) \o <<",", "\n">>

Footer == <<"}", "\n">>

Write(text) == outFile' = [outFile EXCEPT !.content = @ \o text]

\* line 19
WriteHeader ==
    /\ pc = "header"
    /\ Write(Header)
    /\ pc' = "items"
    /\ j' = 1
    /\ UNCHANGED <<fsVars, i, deployments, error, visits, outFile0, prevEmitted>>

\* lines 20-21
WriteItem ==
    /\ pc = "items"
    /\ j <= Len(deployments)
    /\ Write(ItemText(deployments[j][1], deployments[j][2]))
    /\ j' = j + 1
    /\ UNCHANGED <<fsVars, pc, i, deployments, error, visits, outFile0, prevEmitted>>

\* line 22, and the end of the with block
WriteFooter ==
    /\ pc = "items"
    /\ j > Len(deployments)
    /\ Write(Footer)
    /\ pc' = "emitted"
    /\ UNCHANGED <<fsVars, i, deployments, j, error, visits, outFile0, prevEmitted>>

Terminated == pc \in {"emitted", "aborted"}

\* The script is invoked again on the file system the last run left.
Rerun ==
    /\ Terminated
    /\ pc' = "start"
    /\ i' = 0
    /\ deployments' = <<>>
    /\ j' = 0
    /\ error' = NoError
    /\ visits' = [k \in 1..Len(listing) |-> 0]
    /\ outFile0' = outFile
    /\ prevEmitted' = (pc = "emitted")
    /\ UNCHANGED <<fsVars, outFile>>

\* One step of a run.
RunStep ==
    \/ ListDir
    \/ SkipExcluded
    \/ LoadEntry
    \/ LoadFail
    \/ OpenWrite
    \/ WriteHeader
    \/ WriteItem
    \/ WriteFooter

Next == RunStep \/ Rerun

Spec == Init /\ [][Next]_vars

\* The interpreter runs a started script to its end.
FairSpec == Init /\ [][Next]_vars /\ WF_vars(RunStep)

\* The same script over three entry names and more kinds of input text.
RoundTripSpec ==
    InitWith(RichTexts, {s \in Listings : Range(s) \subseteq RoundTripNames})
    /\ [][Next]_vars

(***************************************************************************)
(* Reading deployed.ts back                                                *)
(***************************************************************************)
RECURSIVE FindChar(_, _, _)
\* The first index at or after p where text holds c (Len(text) + 1 if none).
FindChar(text, p, c) ==
    IF p > Len(text) \/ text[p] = c THEN p ELSE FindChar(text, p + 1, c)

RECURSIVE PropsLoop(_, _, _)
\* The properties of the object literal from index p on: each is two spaces,
\* the key, ": ", a JSON value and ",\n"; the literal ends with "}\n" at the
\* end of the text.  A property is [key, from, to]: the JSON value is
\* text[from .. to].
PropsLoop(text, p, acc) ==
    IF HasWord(text, p, Footer) /\ p + Len(Footer) = Len(text) + 1
    THEN [ok |-> TRUE, props |-> acc]
    ELSE IF ~HasWord(text, p, <<" ", " ">>) THEN [ok |-> FALSE, props |-> <<>>]
    ELSE LET c == FindChar(text, p + 2, ":")
             r == ScanOnce(text, c + 2)
         IN  IF ~HasWord(text, c, <<":", " ">>) \/ ~r.ok
                \/ ~HasWord(text, r.end, <<",", "\n">>)
             THEN [ok |-> FALSE, props |-> <<>>]
             ELSE PropsLoop(text, r.end + 2,
                            Append(acc, [key |-> SubSeq(text, p + 2, c - 1),
                                         from |-> c + 2, to |-> r.end - 1]))

\* The properties of a complete deployed.ts, in file order.
ParseOutput(text) ==
    IF HasWord(text, 1, Header) THEN PropsLoop(text, Len(Header) + 1, <<>>)
    ELSE [ok |-> FALSE, props |-> <<>>]

Emitted == ParseOutput(outFile.content)

EmittedKeys == [k \in 1..Len(Emitted.props) |-> Emitted.props[k].key]

\* The JSON text emitted for the k-th property.
EmittedJson(k) == SubSeq(outFile.content, Emitted.props[k].from, Emitted.props[k].to)

NotExcludedName(name) == name # Excluded

\* The listing without the excluded id, order kept.
Chains == SelectSeq(listing, NotExcludedName)

\* The value of a chain's deployedCrossLiquid.json.
RecordOf(chainId) == loaded[tree[chainId].text].val

GoodEntry(name) ==
    tree[name].isDir /\ tree[name].hasFile /\ loaded[tree[name].text].ok

Position(name) == CHOOSE k \in 1..Len(listing) : listing[k] = name

Written == pc \in {"header", "items", "emitted"}

(***************************************************************************)
(* Claims                                                                  *)
(***************************************************************************)
\* C1: "31337" is never a key of the accumulated mapping and never a property
\* of the emitted output, even when its directory and a well-formed file exist.
C1_ExcludedNeverPresent ==
    /\ ~HasKey(deployments, Excluded)
    /\ pc = "emitted" =>
          LET keys == EmittedKeys
          IN  /\ Emitted.ok
              /\ \A k \in 1..Len(keys) : keys[k] # Excluded

C1_Witness ==
    /\ pc = "emitted"
    /\ Excluded \in Range(listing)
    /\ GoodEntry(Excluded)
    /\ visits[Position(Excluded)] = 1
    /\ Len(deployments) >= 1

\* C2: a successful run over N chain subdirectories, none named "31337",
\* emits exactly N properties, one per subdirectory and keyed by its name,
\* none missing, duplicated or added.
C2_OnePropertyPerChain ==
    (pc = "emitted" /\ Excluded \notin Range(listing)) =>
        LET keys == EmittedKeys
        IN  /\ \A n \in Range(listing) : GoodEntry(n)
            /\ Emitted.ok
            /\ Len(keys) = Len(listing)
            /\ Range(keys) = Range(listing)
            /\ \A a, b \in 1..Len(keys) : a # b => keys[a] # keys[b]

C2_Witness ==
    /\ pc = "emitted"
    /\ Excluded \notin Range(listing)
    /\ Len(listing) = 2

\* C3: a non-excluded entry whose file is missing or is not valid JSON aborts
\* the run: it is never skipped, no later entry is visited after it, and no
\* run reaches the output with a subset of the chains.
C3_FailFast ==
    /\ \A k \in 1..Len(listing) :
          (NotExcludedName(listing[k]) /\ ~GoodEntry(listing[k]) /\ visits[k] > 0) =>
              /\ pc = "aborted"
              /\ error.where = "input"
              /\ error.entry = listing[k]
              /\ i = k
              /\ \A m \in (k + 1)..Len(listing) : visits[m] = 0
    /\ Written =>
          \A k \in 1..Len(listing) :
              NotExcludedName(listing[k]) =>
                  GoodEntry(listing[k]) /\ HasKey(deployments, listing[k])

C3_Witness ==
    /\ pc = "aborted"
    /\ error.where = "input"
    /\ i < Len(listing)
    /\ NotExcludedName(listing[i + 1])
    /\ GoodEntry(listing[i + 1])

C5_KeysAreChainDirs ==
    /\ \A k \in 1..Len(deployments) :
          LET key == deployments[k][1]
          IN  /\ key \in Range(listing)
              /\ key # Excluded
              /\ tree[key].isDir
              /\ tree[key].hasFile
              /\ deployments[k][2] = JsonLoad(tree[key].text).val
    /\ pc = "emitted" =>
          LET keys == EmittedKeys
          IN  /\ Emitted.ok
              /\ \A k \in 1..Len(keys) :
                    /\ keys[k] \in Range(listing)
                    /\ keys[k] # Excluded
                    /\ tree[keys[k]].isDir
                    /\ EmittedJson(k) = JsonDumps(JsonLoad(tree[keys[k]].text).val)

C5_Witness ==
    /\ pc = "emitted"
    /\ Len(deployments) = 2
    /\ deployments[1][2] # deployments[2][2]
    /\ \E n \in Range(listing) : ~tree[n].isDir

\* C6: parsing the pretty-printed JSON text emitted for a chain yields the
\* value that was parsed from that chain's input file.
C6_RoundTrip ==
    pc = "emitted" =>
        /\ Emitted.ok
        /\ Len(Emitted.props) = Len(Chains)
        /\ \A k \in 1..Len(Chains) :
              LET again == JsonLoad(EmittedJson(k))
              IN  again.ok /\ again.val = JsonLoad(tree[Chains[k]].text).val

C6_Witness ==
    /\ pc = "emitted"
    /\ \E n \in Range(Chains) : tree[n].text = TextBackslash
    /\ \E n \in Range(Chains) : tree[n].text = TextNested

\* C7: the output file is opened only after every non-excluded input file has
\* been read and parsed; when collection fails the file is neither created
\* nor overwritten.
C7_CollectBeforeOpen ==
    /\ outFile # outFile0 =>
          /\ Written
          /\ i > Len(listing)
          /\ \A n \in Range(Chains) : GoodEntry(n) /\ HasKey(deployments, n)
    /\ (pc = "aborted" /\ error.where = "input") => outFile = outFile0

C7_Witness ==
    /\ pc = "aborted"
    /\ error.where = "input"
    /\ outDirExists
    /\ outFile0.exists
    /\ Len(deployments) >= 1

\* C8: a successful run writes the header line, one line-group per chain in
\* the order of the directory listing (not sorted), each followed by ",\n",
\* then the closing brace.
C8_ListingOrder ==
    pc = "emitted" =>
        /\ Emitted.ok
        /\ EmittedKeys = Chains
        /\ DictKeys(deployments) = Chains

C8_Witness ==
    /\ pc = "emitted"
    /\ Len(Chains) >= 2
    /\ Chains[1] = <<"1", "3", "7">>
    /\ Chains[2] = <<"1">>

Rank(p) ==
    CASE p = "start" -> 0
      [] p = "collecting" -> 1
      [] p = "header" -> 2
      [] p = "items" -> 3
      [] OTHER -> 4

\* C9: a run only moves forward (collecting, then emitting), visits each entry
\* at most once, retries nothing, and ends either emitted or aborted by the
\* first error.
C9_RunTerminates ==
    /\ [](\A k \in 1..Len(listing) : visits[k] <= 1)
    /\ [][pc' # "start" =>
            /\ Rank(pc') >= Rank(pc)
            /\ i' >= i
            /\ j' >= j
            /\ (pc = "aborted" => pc' = "aborted")]_vars
    /\ [](pc = "aborted" =>
            /\ error # NoError
            /\ \A k \in 1..Len(listing) :
                  visits[k] > 0 /\ listing[k] # error.entry =>
                      ~NotExcludedName(listing[k]) \/ GoodEntry(listing[k]))
    /\ [](pc = "start" => <>Terminated)

C9_Witness ==
    /\ pc = "emitted"
    /\ Len(listing) = 3
    /\ \A k \in 1..Len(listing) : visits[k] = 1

\* The output a run over the given chains writes.
RECURSIVE ItemsOf(_)
ItemsOf(chains) ==
    IF chains = <<>> THEN <<>>
    ELSE ItemText(Head(chains), RecordOf(Head(chains))) \o ItemsOf(Tail(chains))

\* C10: an entry named "31337" never makes the run fail, whatever is under
\* it: how the run ends and what it writes is decided by the other entries
\* alone.
C10_ExcludedNeverRead ==
    /\ error.entry # Excluded
    /\ Terminated =>
          IF ~rootExists THEN pc = "aborted" /\ error.where = "listdir"
          ELSE IF \E k \in 1..Len(Chains) : ~GoodEntry(Chains[k])
          THEN LET first == CHOOSE k \in 1..Len(Chains) :
                               /\ ~GoodEntry(Chains[k])
                               /\ \A m \in 1..(k - 1) : GoodEntry(Chains[m])
               IN  /\ pc = "aborted"
                   /\ error.where = "input"
                   /\ error.entry = Chains[first]
                   /\ outFile = outFile0
          ELSE IF ~outDirExists THEN pc = "aborted" /\ error.where = "output"
          ELSE /\ pc = "emitted"
               /\ outFile.content = Header \o ItemsOf(Chains) \o Footer

C10_Witness ==
    /\ pc = "emitted"
    /\ Excluded \in Range(listing)
    /\ ~GoodEntry(Excluded)
    /\ visits[Position(Excluded)] = 1
    /\ Len(deployments) >= 1

=============================================================================
